---- MODULE Spec2Model ----
(***************************************************************************)
(* A model of the L-System renderer of src/main.py: the rewriting engine   *)
(* (LSystem.iterate_system_value), the dry count (LSystem.count_draws),    *)
(* the turtle interpreter (LSystem.run_system_value) and the driver        *)
(* (LSystem.iterate_n_then_run).                                           *)
(*                                                                         *)
(* Python objects are modelled with a heap: `heap` holds the Cursor        *)
(* objects that exist, `cursor` and the entries of `saved_cursors` are     *)
(* references (indices) into it, as self.cursor and self.saved_cursors     *)
(* hold references to Cursor objects.                                      *)
(*                                                                         *)
(* Floats are modelled by exact integers: the rotation step is a quarter   *)
(* turn, `angle` counts quarter turns (never normalised, as in the code),  *)
(* and cos/sin of a quarter-turn multiple are taken as exactly 0, 1 or -1. *)
(* The gradient argument draws / total_draws is kept as an exact fraction. *)
(***************************************************************************)
EXTENDS Integers, Sequences, FiniteSets, TLC

\* ------------------------------------------------------------------ bounds
MaxSeedLen == 3      \* longest seed drawn in Init
MaxGen == 2          \* rewrite generations over the whole behaviour
MaxRuns == 2         \* calls of iterate_n_then_run over the whole behaviour

\* ------------------------------------------------ constructor arguments
canvas_width == 8
canvas_height == 6
movement_length == 5
BLACK == <<0, 0, 0>>
WHITE == <<255, 255, 255>>

\* ------------------------------------------------------- Command, symbols
PENDOWN == "PENDOWN"
PENUP == "PENUP"
MOVEFORWARD == "MOVEFORWARD"
ROTATECCW == "ROTATECCW"
ROTATECW == "ROTATECW"
STOREPOS == "STOREPOS"
GOTOPOS == "GOTOPOS"
NOACTION == "NOACTION"

Command ==
  {PENDOWN, PENUP, MOVEFORWARD, ROTATECCW, ROTATECW, STOREPOS, GOTOPOS, NOACTION}

\* NamedCommand = tuple[str, Command]
NamedCommand == {"F", "X", "+", "-", "[", "]", "U", "D"} \X Command

sF == <<"F", MOVEFORWARD>>
sX == <<"X", NOACTION>>
sCCW == <<"+", ROTATECCW>>
sCW == <<"-", ROTATECW>>
sStore == <<"[", STOREPOS>>
sGoto == <<"]", GOTOPOS>>
sU == <<"U", PENUP>>
sD == <<"D", PENDOWN>>
\* same display character as sF, other command: a different dictionary key
sFn == <<"F", NOACTION>>

Alphabet == {sF, sX, sCCW, sCW, sStore, sGoto, sU, sD, sFn}

\* the rule maps Init chooses from (dict[NamedCommand, list[NamedCommand]])
NoRules == [k \in {} |-> <<>>]
KochRules == [k \in {sX} |-> <<sF, sCCW, sF, sCW, sF>>]
PenRules == [k \in {sU} |-> <<sD, sF, sU, sF, sD, sF>>]
BranchRules ==
  [k \in {sF, sX} |-> IF k = sF THEN <<sF, sStore, sCCW, sF, sGoto>> ELSE <<>>]

RuleMaps == {NoRules, KochRules, PenRules, BranchRules}

RECURSIVE SeqsUpTo(_, _)
SeqsUpTo(S, n) ==
  IF n = 0 THEN {<<>>}
  ELSE LET shorter == SeqsUpTo(S, n - 1)
       IN shorter \cup {Append(s, e) : s \in shorter, e \in S}

Seeds == SeqsUpTo(Alphabet, MaxSeedLen)

VARIABLES
  seed,           \* self.seed
  rules,          \* self.rules
  system_value,   \* self.system_value
  heap,           \* the Cursor objects that exist
  cursor,         \* self.cursor: a reference into heap
  saved_cursors,  \* self.saved_cursors: a list of references into heap
  canvas,         \* the canvas_draw.line calls received so far, in order
  pc,             \* "idle", "iterate", "run" or "error"
  err,            \* the exception that ended the run, "" if none
  n_left,         \* iterations of the range(n) loop still to run
  idx,            \* 1-based position of the command loop of run_system_value
  draws,          \* local of run_system_value
  total_draws,    \* local of run_system_value
  pen_colors,     \* self.pen_colors, the stops self.gradient closes over
  args,           \* the inputs of process_arguments, NoArgs when the LSystem
                  \* is constructed directly
  g,              \* one call of the gradient closure: argument p / q and result
  depth0,         \* history: Len(saved_cursors) when the current pass began
  gens,           \* history: iterate_system_value calls so far
  ns,             \* history: the arguments n of the iterate_n_then_run calls
  snapshots,      \* history: the cursor's value at each unmatched STOREPOS
  matched         \* history: the snapshot of the STOREPOS matched by the last GOTOPOS

vars ==
  <<seed, rules, system_value, heap, cursor, saved_cursors, canvas, pc, err,
    n_left, idx, draws, total_draws, pen_colors, args, g, depth0, gens, ns,
    snapshots, matched>>

\* -------------------------------------------------------------- helpers
\* Cursor(x, y, angle, is_down)
Cursor(x, y, angle, is_down) ==
  [x |-> x, y |-> y, angle |-> angle, is_down |-> is_down]

\* cos and sin of a whole number of quarter turns
cos(a) == CASE a % 4 = 0 -> 1 [] a % 4 = 2 -> -1 [] OTHER -> 0
sin(a) == CASE a % 4 = 1 -> 1 [] a % 4 = 3 -> -1 [] OTHER -> 0

\* Cursor.move_forward
move_forward(c, len) ==
  [c EXCEPT !.x = c.x + len * cos(c.angle), !.y = c.y - len * sin(c.angle)]

\* Cursor.rotate_ccw, Cursor.rotate_cw (one rotate_angle = one quarter turn)
rotate_ccw(c, r) == [c EXCEPT !.angle = c.angle + r]
rotate_cw(c, r) == [c EXCEPT !.angle = c.angle - r]

\* rounding to nearest in the place of int()
round_half_up(a, b) == (2 * a + b) \div (2 * b)

\* int(): truncation toward zero of the fraction a / b, b > 0
int(a, b) == IF a >= 0 THEN a \div b ELSE -((-a) \div b)

\* the gradient closure clipping with max(min(t, 0.0), 1.0), which is always 1
gradient_fp_clip_swapped(colors, p, q, low) ==
  IF Len(colors) = 1 THEN colors[1] ELSE colors[Len(colors)]

\* the closure returned by build_color_gradient, applied to t = p / q (q > 0).
\* Float arithmetic is taken as exact except in what int() sees: when the
\* exact value of lerp is a whole number strictly inside a segment, the
\* float may be that number or fall just below it (low), and int() then
\* gives one less (30 + 0.6000000000000001 * (0 - 30) = 11.999999999999996).
\* At a stop scaled_t is exactly 0.0 or 1.0 and the value is exact.
gradient_fp(colors, p, q, low) ==
  IF Len(colors) = 1 THEN colors[1]
  ELSE LET tp == IF p > q THEN q ELSE IF p < 0 THEN 0 ELSE p   \* clipped t = tp / q
           n == Len(colors) - 1
           i == (tp * n) \div q                                  \* floor(x)
           j == IF (tp * n) % q = 0 THEN i ELSE i + 1            \* ceil(x)
       IN IF i = j THEN colors[i + 1]
          ELSE LET num == tp * n - i * q      \* scaled_t = num / den
                   den == (j - i) * q
                   c1 == colors[i + 1]
                   c2 == colors[j + 1]
                   lerp(a, b) ==
                     IF low /\ a # b /\ (num * (b - a)) % den = 0
                     THEN int(a * den + num * (b - a), den) - 1
                     ELSE int(a * den + num * (b - a), den)
               IN <<lerp(c1[1], c2[1]), lerp(c1[2], c2[2]), lerp(c1[3], c2[3])>>

\* the gradient as the passes use it: between BLACK and WHITE at
\* t = draws / total_draws the float value never falls below a whole number
gradient(colors, p, q) == gradient_fp(colors, p, q, FALSE)

\* the loop of count_draws from position i on
RECURSIVE count_loop(_, _, _, _)
count_loop(sv, i, pen_is_down, d) ==
  IF i > Len(sv) THEN d
  ELSE LET command == sv[i][2]
       IN CASE command = PENDOWN -> count_loop(sv, i + 1, TRUE, d)
            [] command = PENUP -> count_loop(sv, i + 1, FALSE, d)
            [] command = MOVEFORWARD ->
                 count_loop(sv, i + 1, pen_is_down, IF pen_is_down THEN d + 1 ELSE d)
            [] command = GOTOPOS ->
                 count_loop(sv, i + 1, pen_is_down, IF pen_is_down THEN d + 1 ELSE d)
            [] OTHER -> count_loop(sv, i + 1, pen_is_down, d)

\* count_draws without its PENUP case: the tracked pen is never lifted
RECURSIVE count_loop_no_penup(_, _, _, _)
count_loop_no_penup(sv, i, pen_is_down, d) ==
  IF i > Len(sv) THEN d
  ELSE LET command == sv[i][2]
       IN CASE command = PENDOWN -> count_loop_no_penup(sv, i + 1, TRUE, d)
            [] command \in {MOVEFORWARD, GOTOPOS} ->
                 count_loop_no_penup(sv, i + 1, pen_is_down,
                                     IF pen_is_down THEN d + 1 ELSE d)
            [] OTHER -> count_loop_no_penup(sv, i + 1, pen_is_down, d)

count_draws_no_penup(sv, is_down) == count_loop_no_penup(sv, 1, is_down, 0)

\* count_draws without its GOTOPOS case
RECURSIVE count_loop_no_gotopos(_, _, _, _)
count_loop_no_gotopos(sv, i, pen_is_down, d) ==
  IF i > Len(sv) THEN d
  ELSE LET command == sv[i][2]
       IN CASE command = PENDOWN -> count_loop_no_gotopos(sv, i + 1, TRUE, d)
            [] command = PENUP -> count_loop_no_gotopos(sv, i + 1, FALSE, d)
            [] command = MOVEFORWARD ->
                 count_loop_no_gotopos(sv, i + 1, pen_is_down,
                                       IF pen_is_down THEN d + 1 ELSE d)
            [] OTHER -> count_loop_no_gotopos(sv, i + 1, pen_is_down, d)

count_draws_no_gotopos(sv, is_down) == count_loop_no_gotopos(sv, 1, is_down, 0)

\* count_draws starting its tracked pen down whatever the cursor's pen state
count_draws_pen_down(sv, is_down) == count_loop(sv, 1, TRUE, 0)

\* LSystem.count_draws, of the system value sv with self.cursor.is_down = is_down
count_draws(sv, is_down) == count_loop(sv, 1, is_down, 0)

\* the loop of iterate_system_value from position i on
RECURSIVE iterate_loop(_, _, _, _)
iterate_loop(sv, rs, i, new_system_value) ==
  IF i > Len(sv) THEN new_system_value
  ELSE IF sv[i] \in DOMAIN rs
       THEN iterate_loop(sv, rs, i + 1, new_system_value \o rs[sv[i]])
       ELSE iterate_loop(sv, rs, i + 1, Append(new_system_value, sv[i]))

\* a generation that looks rules up by display character alone
RECURSIVE iterate_loop_by_name(_, _, _, _)
iterate_loop_by_name(sv, rs, i, new_system_value) ==
  IF i > Len(sv) THEN new_system_value
  ELSE IF \E k \in DOMAIN rs : k[1] = sv[i][1]
       THEN iterate_loop_by_name(sv, rs, i + 1,
              new_system_value \o rs[CHOOSE k \in DOMAIN rs : k[1] = sv[i][1]])
       ELSE iterate_loop_by_name(sv, rs, i + 1, Append(new_system_value, sv[i]))

new_value_by_name(sv, rs) == iterate_loop_by_name(sv, rs, 1, <<>>)

\* the value iterate_system_value assigns to self.system_value
new_value(sv, rs) == iterate_loop(sv, rs, 1, <<>>)

\* draw() with the counter taken after its increment
Line_counted_early(from_x, from_y, to_x, to_y, d, total) ==
  [from |-> <<from_x, from_y>>, to |-> <<to_x, to_y>>,
   fill |-> gradient(pen_colors, d + 1, total), t |-> <<d + 1, total>>,
   run |-> Len(ns), at |-> idx]

\* a pop that reads the last entry and leaves it on the list
rest_peek(s) == s

\* what list.pop() leaves of the non-empty list s
rest(s) == SubSeq(s, 1, Len(s) - 1)

\* the popped cursor after saved_cursor.is_down = self.cursor.is_down
patch_pen_lifted(saved_cursor, cur) == [saved_cursor EXCEPT !.is_down = FALSE]

patch_pen(saved_cursor, cur) == [saved_cursor EXCEPT !.is_down = cur.is_down]

\* one canvas_draw.line call made by draw(); run and at are history fields
Line(from_x, from_y, to_x, to_y, d, total) ==
  [from |-> <<from_x, from_y>>, to |-> <<to_x, to_y>>,
   fill |-> gradient(pen_colors, d, total), t |-> <<d, total>>,
   run |-> Len(ns), at |-> idx]

command_at == IF pc = "run" /\ idx <= Len(system_value)
              THEN system_value[idx][2] ELSE "none"

NoSnapshot == Cursor(0, 0, 0, FALSE)

\* args when no command line was processed, g when no gradient call is modelled
NoArgs == [rules_map |-> <<>>, names_map |-> <<>>, seed |-> <<>>, pencolors |-> <<>>]
NoCall == [p |-> 0, q |-> 1, out |-> <<>>]

\* ------------------------------------------------------------------ Init
Init ==
  /\ seed \in Seeds
  /\ rules \in RuleMaps
  /\ system_value = seed
  /\ heap = <<Cursor(canvas_width \div 2, canvas_height \div 2, 0, TRUE)>>
  /\ cursor = 1
  /\ saved_cursors = <<>>
  /\ canvas = <<>>
  /\ pen_colors = <<BLACK, WHITE>>
  /\ args = NoArgs
  /\ g = NoCall
  /\ depth0 = 0
  /\ pc = "idle"
  /\ err = ""
  /\ n_left = 0
  /\ idx = 1
  /\ draws = 0
  /\ total_draws = 0
  /\ gens = 0
  /\ ns = <<>>
  /\ snapshots = <<>>
  /\ matched = NoSnapshot

\* --------------------------------------------------------------- actions
\* iterate_n_then_run looping range(n + 1)
IterateNThenRun_one_more ==
  /\ pc = "idle"
  /\ Len(ns) < MaxRuns
  /\ \E n \in 0..(MaxGen - gens) :
       /\ n_left' = n + 1
       /\ ns' = Append(ns, n)
  /\ pc' = "iterate"
  /\ UNCHANGED <<pen_colors, args, g, depth0>>
  /\ UNCHANGED <<seed, rules, system_value, heap, cursor, saved_cursors, canvas,
                 err, idx, draws, total_draws, gens, snapshots, matched>>

\* iterate_n_then_run restarting from the seed at each call
IterateNThenRun_from_seed ==
  /\ pc = "idle"
  /\ Len(ns) < MaxRuns
  /\ \E n \in 0..(MaxGen - gens) :
       /\ n_left' = n
       /\ ns' = Append(ns, n)
  /\ system_value' = seed
  /\ pc' = "iterate"
  /\ UNCHANGED <<pen_colors, args, g, depth0>>
  /\ UNCHANGED <<seed, rules, heap, cursor, saved_cursors, canvas,
                 err, idx, draws, total_draws, gens, snapshots, matched>>

\* a call of iterate_n_then_run(n)
IterateNThenRun ==
  /\ pc = "idle"
  /\ Len(ns) < MaxRuns
  /\ \E n \in 0..(MaxGen - gens) :
       /\ n_left' = n
       /\ ns' = Append(ns, n)
  /\ pc' = "iterate"
  /\ UNCHANGED <<pen_colors, args, g, depth0>>
  /\ UNCHANGED <<seed, rules, system_value, heap, cursor, saved_cursors, canvas,
                 err, idx, draws, total_draws, gens, snapshots, matched>>

\* iterate_system_value when system_value is the seed list itself, rewritten
\* in place
IterateSystemValue_in_place ==
  /\ pc = "iterate"
  /\ n_left > 0
  /\ system_value' = new_value(system_value, rules)
  /\ seed' = system_value'
  /\ n_left' = n_left - 1
  /\ gens' = gens + 1
  /\ UNCHANGED <<pen_colors, args, g, depth0>>
  /\ UNCHANGED <<rules, heap, cursor, saved_cursors, canvas, pc, err,
                 idx, draws, total_draws, ns, snapshots, matched>>

\* one pass of the range(n) loop: iterate_system_value()
IterateSystemValue ==
  /\ pc = "iterate"
  /\ n_left > 0
  /\ system_value' = new_value(system_value, rules)
  /\ n_left' = n_left - 1
  /\ gens' = gens + 1
  /\ UNCHANGED <<pen_colors, args, g, depth0>>
  /\ UNCHANGED <<seed, rules, heap, cursor, saved_cursors, canvas, pc, err,
                 idx, draws, total_draws, ns, snapshots, matched>>

\* run_system_value beginning each pass with a new cursor and an empty stack
RunSystemValue_fresh ==
  /\ pc = "iterate"
  /\ n_left = 0
  /\ draws' = 0
  /\ heap' = <<Cursor(canvas_width \div 2, canvas_height \div 2, 0, TRUE)>>
  /\ cursor' = 1
  /\ saved_cursors' = <<>>
  /\ snapshots' = <<>>
  /\ total_draws' = count_draws(system_value, TRUE)
  /\ idx' = 1
  /\ pc' = "run"
  /\ depth0' = 0
  /\ UNCHANGED <<pen_colors, args, g>>
  /\ UNCHANGED <<seed, rules, system_value, canvas,
                 err, n_left, gens, ns, matched>>

\* run_system_value up to the command loop: draws = 0, total_draws = count_draws()
RunSystemValue ==
  /\ pc = "iterate"
  /\ n_left = 0
  /\ draws' = 0
  /\ total_draws' = count_draws(system_value, heap[cursor].is_down)
  /\ idx' = 1
  /\ pc' = "run"
  /\ depth0' = Len(saved_cursors)
  /\ UNCHANGED <<pen_colors, args, g>>
  /\ UNCHANGED <<seed, rules, system_value, heap, cursor, saved_cursors, canvas,
                 err, n_left, gens, ns, snapshots, matched>>

PenDown ==
  /\ command_at = PENDOWN
  /\ heap' = [heap EXCEPT ![cursor].is_down = TRUE]
  /\ idx' = idx + 1
  /\ UNCHANGED <<pen_colors, args, g, depth0>>
  /\ UNCHANGED <<seed, rules, system_value, cursor, saved_cursors, canvas, pc,
                 err, n_left, draws, total_draws, gens, ns, snapshots, matched>>

PenUp ==
  /\ command_at = PENUP
  /\ heap' = [heap EXCEPT ![cursor].is_down = FALSE]
  /\ idx' = idx + 1
  /\ UNCHANGED <<pen_colors, args, g, depth0>>
  /\ UNCHANGED <<seed, rules, system_value, cursor, saved_cursors, canvas, pc,
                 err, n_left, draws, total_draws, gens, ns, snapshots, matched>>

\* MOVEFORWARD: the move, then draw() and draws += 1 if the pen is down;
\* draws / total_draws raises ZeroDivisionError when total_draws is 0
MoveForward ==
  /\ command_at = MOVEFORWARD
  /\ LET from == heap[cursor]
         to == move_forward(from, movement_length)
     IN /\ heap' = [heap EXCEPT ![cursor] = to]
        /\ IF to.is_down
           THEN IF total_draws = 0
                THEN /\ pc' = "error"
                     /\ err' = "ZeroDivisionError"
                     /\ UNCHANGED <<canvas, draws, idx>>
                ELSE /\ canvas' = Append(canvas,
                            Line(from.x, from.y, to.x, to.y, draws, total_draws))
                     /\ draws' = draws + 1
                     /\ idx' = idx + 1
                     /\ UNCHANGED <<pc, err>>
           ELSE /\ idx' = idx + 1
                /\ UNCHANGED <<canvas, draws, pc, err>>
  /\ UNCHANGED <<pen_colors, args, g, depth0>>
  /\ UNCHANGED <<seed, rules, system_value, cursor, saved_cursors, n_left,
                 total_draws, gens, ns, snapshots, matched>>

RotateCCW ==
  /\ command_at = ROTATECCW
  /\ heap' = [heap EXCEPT ![cursor] = rotate_ccw(heap[cursor], 1)]
  /\ idx' = idx + 1
  /\ UNCHANGED <<pen_colors, args, g, depth0>>
  /\ UNCHANGED <<seed, rules, system_value, cursor, saved_cursors, canvas, pc,
                 err, n_left, draws, total_draws, gens, ns, snapshots, matched>>

RotateCW ==
  /\ command_at = ROTATECW
  /\ heap' = [heap EXCEPT ![cursor] = rotate_cw(heap[cursor], 1)]
  /\ idx' = idx + 1
  /\ UNCHANGED <<pen_colors, args, g, depth0>>
  /\ UNCHANGED <<seed, rules, system_value, cursor, saved_cursors, canvas, pc,
                 err, n_left, draws, total_draws, gens, ns, snapshots, matched>>

\* STOREPOS: self.saved_cursors.append(self.cursor) appends the reference
StorePos ==
  /\ command_at = STOREPOS
  /\ saved_cursors' = Append(saved_cursors, cursor)
  /\ snapshots' = Append(snapshots, heap[cursor])
  /\ idx' = idx + 1
  /\ UNCHANGED <<pen_colors, args, g, depth0>>
  /\ UNCHANGED <<seed, rules, system_value, heap, cursor, canvas, pc, err,
                 n_left, draws, total_draws, gens, ns, matched>>

\* GOTOPOS that skips the command when the stack is empty
GotoPos_skip_empty ==
  /\ command_at = GOTOPOS
  /\ IF saved_cursors = <<>>
     THEN /\ idx' = idx + 1
          /\ UNCHANGED <<heap, cursor, saved_cursors, canvas, pc, err, draws,
                         snapshots, matched>>
     ELSE LET saved_cursor == saved_cursors[Len(saved_cursors)]
              popped == rest(saved_cursors)
              cur == heap[cursor]
              sav == heap[saved_cursor]
          IN IF cur.is_down /\ total_draws = 0
             THEN /\ pc' = "error"
                  /\ err' = "ZeroDivisionError"
                  /\ saved_cursors' = popped
                  /\ UNCHANGED <<heap, cursor, canvas, idx, draws, snapshots,
                                 matched>>
             ELSE /\ saved_cursors' = popped
                  /\ IF cur.is_down
                     THEN /\ canvas' = Append(canvas,
                                 Line(cur.x, cur.y, sav.x, sav.y, draws, total_draws))
                          /\ draws' = draws + 1
                     ELSE UNCHANGED <<canvas, draws>>
                  /\ heap' = [heap EXCEPT ![saved_cursor] = patch_pen(sav, cur)]
                  /\ cursor' = saved_cursor
                  /\ matched' = snapshots[Len(snapshots)]
                  /\ snapshots' = SubSeq(snapshots, 1, Len(snapshots) - 1)
                  /\ idx' = idx + 1
                  /\ UNCHANGED <<pc, err>>
  /\ UNCHANGED <<pen_colors, args, g, depth0>>
  /\ UNCHANGED <<seed, rules, system_value, n_left, total_draws, gens, ns>>

\* GOTOPOS: pop (IndexError on an empty list), draw if the pen is down,
\* patch the popped cursor's is_down, install the popped cursor
GotoPos ==
  /\ command_at = GOTOPOS
  /\ IF saved_cursors = <<>>
     THEN /\ pc' = "error"
          /\ err' = "IndexError"
          /\ UNCHANGED <<heap, cursor, saved_cursors, canvas, idx, draws,
                         snapshots, matched>>
     ELSE LET saved_cursor == saved_cursors[Len(saved_cursors)]
              popped == rest(saved_cursors)
              cur == heap[cursor]
              sav == heap[saved_cursor]
          IN IF cur.is_down /\ total_draws = 0
             THEN /\ pc' = "error"
                  /\ err' = "ZeroDivisionError"
                  /\ saved_cursors' = popped
                  /\ UNCHANGED <<heap, cursor, canvas, idx, draws, snapshots,
                                 matched>>
             ELSE /\ saved_cursors' = popped
                  /\ IF cur.is_down
                     THEN /\ canvas' = Append(canvas,
                                 Line(cur.x, cur.y, sav.x, sav.y, draws, total_draws))
                          /\ draws' = draws + 1
                     ELSE UNCHANGED <<canvas, draws>>
                  /\ heap' = [heap EXCEPT ![saved_cursor] = patch_pen(sav, cur)]
                  /\ cursor' = saved_cursor
                  /\ matched' = snapshots[Len(snapshots)]
                  /\ snapshots' = SubSeq(snapshots, 1, Len(snapshots) - 1)
                  /\ idx' = idx + 1
                  /\ UNCHANGED <<pc, err>>
  /\ UNCHANGED <<pen_colors, args, g, depth0>>
  /\ UNCHANGED <<seed, rules, system_value, n_left, total_draws, gens, ns>>

NoAction ==
  /\ command_at = NOACTION
  /\ idx' = idx + 1
  /\ UNCHANGED <<pen_colors, args, g, depth0>>
  /\ UNCHANGED <<seed, rules, system_value, heap, cursor, saved_cursors, canvas,
                 pc, err, n_left, draws, total_draws, gens, ns, snapshots,
                 matched>>

\* a command loop that stops before its last command
Return_early ==
  /\ pc = "run"
  /\ idx >= Len(system_value)
  /\ pc' = "idle"
  /\ UNCHANGED <<pen_colors, args, g, depth0>>
  /\ UNCHANGED <<seed, rules, system_value, heap, cursor, saved_cursors, canvas,
                 err, n_left, idx, draws, total_draws, gens, ns, snapshots,
                 matched>>

\* the command loop is exhausted: run_system_value and iterate_n_then_run return
Return ==
  /\ pc = "run"
  /\ idx > Len(system_value)
  /\ pc' = "idle"
  /\ UNCHANGED <<pen_colors, args, g, depth0>>
  /\ UNCHANGED <<seed, rules, system_value, heap, cursor, saved_cursors, canvas,
                 err, n_left, idx, draws, total_draws, gens, ns, snapshots,
                 matched>>

Next ==
  \/ IterateNThenRun
  \/ IterateSystemValue
  \/ RunSystemValue
  \/ PenDown
  \/ PenUp
  \/ MoveForward
  \/ RotateCCW
  \/ RotateCW
  \/ StorePos
  \/ GotoPos
  \/ NoAction
  \/ Return

Spec == Init /\ [][Next]_vars

\* ------------------------------------------- construction and the driver
\* Strings are sequences of one-character strings; a dict key is such a
\* sequence, and iterating a string yields its characters.

\* DEFAULT_NAMES of process_arguments
DEFAULT_NAMES ==
  (<<"F">> :> MOVEFORWARD) @@ (<<"G">> :> MOVEFORWARD) @@ (<<"H">> :> MOVEFORWARD)
  @@ (<<"X">> :> NOACTION) @@ (<<"Y">> :> NOACTION) @@ (<<"Z">> :> NOACTION)
  @@ (<<"+">> :> ROTATECCW) @@ (<<"-">> :> ROTATECW)
  @@ (<<"[">> :> STOREPOS) @@ (<<"]">> :> GOTOPOS)
  @@ (<<"U">> :> PENUP) @@ (<<"D">> :> PENDOWN)

\* the naming maps the driver is given
TurtleNames ==
  (<<"F">> :> MOVEFORWARD) @@ (<<"+">> :> ROTATECCW) @@ (<<"-">> :> ROTATECW)
TurtleNamesX == TurtleNames @@ (<<"X">> :> NOACTION)
LongKeyNames == DEFAULT_NAMES @@ (<<"F", "G">> :> MOVEFORWARD)

NamesMaps == {DEFAULT_NAMES, TurtleNames, TurtleNamesX, LongKeyNames}

\* the rule maps (dict[str, str]) the driver is given
KochMap == (<<"X">> :> <<"F", "+", "F", "-", "F">>)
BranchMap == (<<"F">> :> <<"F", "[", "+", "F", "]">>) @@ (<<"X">> :> <<>>)
PenMap == (<<"U">> :> <<"D", "F", "U", "F", "D", "F">>)
LongKeyMap == (<<"X", "Y">> :> <<"F">>)
EmptyKeyMap == (<<>> :> <<"F">>) @@ (<<"X">> :> <<"F">>)

RulesMaps == {NoRules, KochMap, BranchMap, PenMap, LongKeyMap, EmptyKeyMap}

SeedStrings ==
  {<<"X">>, <<"F", "]", "F">>, <<"U", "[", "F", "]", "D", "-">>, <<"F", "X">>}

PenColorLists ==
  {<<WHITE>>, <<BLACK, WHITE>>, <<>>, <<<<256, 0, 0>>>>, <<BLACK, <<0, -1, 0>>>>}

\* build_rules naming every right-hand side with the command of its key
build_rules_key_command(rules_map, names_map) ==
  IF \E k \in DOMAIN rules_map : Len(k) # 1
  THEN [err |-> "ValueError", rules |-> NoRules]
  ELSE IF \E k \in DOMAIN names_map : Len(k) # 1
  THEN [err |-> "ValueError", rules |-> NoRules]
  ELSE IF \E k \in DOMAIN rules_map :
            \/ k \notin DOMAIN names_map
            \/ \E i \in 1..Len(rules_map[k]) :
                 <<rules_map[k][i]>> \notin DOMAIN names_map
  THEN [err |-> "KeyError", rules |-> NoRules]
  ELSE [err |-> "",
        rules |->
          [nc \in {<<k[1], names_map[k]>> : k \in DOMAIN rules_map} |->
             LET vs == rules_map[<<nc[1]>>]
             IN [i \in 1..Len(vs) |-> <<vs[i], names_map[<<nc[1]>>]>>]]]

\* LSystem.build_rules: the error it raises, or the rules it returns
build_rules(rules_map, names_map) ==
  IF \E k \in DOMAIN rules_map : Len(k) # 1
  THEN [err |-> "ValueError", rules |-> NoRules]
  ELSE IF \E k \in DOMAIN names_map : Len(k) # 1
  THEN [err |-> "ValueError", rules |-> NoRules]
  ELSE IF \E k \in DOMAIN rules_map :
            \/ k \notin DOMAIN names_map
            \/ \E i \in 1..Len(rules_map[k]) :
                 <<rules_map[k][i]>> \notin DOMAIN names_map
  THEN [err |-> "KeyError", rules |-> NoRules]
  ELSE [err |-> "",
        rules |->
          [nc \in {<<k[1], names_map[k]>> : k \in DOMAIN rules_map} |->
             LET vs == rules_map[<<nc[1]>>]
             IN [i \in 1..Len(vs) |-> <<vs[i], names_map[<<vs[i]>>]>>]]]

\* build_color_gradient without its range check
build_color_gradient_unchecked(colors) ==
  IF colors = <<>> THEN "ValueError" ELSE "gradient"

\* the validation of build_color_gradient: the error it raises, or "gradient"
\* when it returns the closure over colors
build_color_gradient(colors) ==
  IF colors = <<>> THEN "ValueError"
  ELSE IF \E i \in 1..Len(colors) :
            ~(/\ 0 <= colors[i][1] /\ colors[i][1] <= 255
              /\ 0 <= colors[i][2] /\ colors[i][2] <= 255
              /\ 0 <= colors[i][3] /\ colors[i][3] <= 255)
  THEN "ValueError"
  ELSE "gradient"

\* the exception process_arguments and LSystem.__init__ end with, "" if none
construction_error ==
  LET built == build_rules(args.rules_map, args.names_map)
  IN IF built.err # "" THEN built.err
     ELSE IF \E i \in 1..Len(args.seed) : <<args.seed[i]>> \notin DOMAIN args.names_map
     THEN "KeyError"
     ELSE IF build_color_gradient(args.pencolors) # "gradient" THEN "ValueError"
     ELSE ""

InitMain ==
  /\ args \in [rules_map : RulesMaps, names_map : NamesMaps,
               seed : SeedStrings, pencolors : PenColorLists]
  /\ pc = "new"
  /\ seed = <<>>
  /\ rules = NoRules
  /\ system_value = <<>>
  /\ heap = <<>>
  /\ cursor = 0
  /\ saved_cursors = <<>>
  /\ canvas = <<>>
  /\ pen_colors = <<>>
  /\ g = NoCall
  /\ depth0 = 0
  /\ err = ""
  /\ n_left = 0
  /\ idx = 1
  /\ draws = 0
  /\ total_draws = 0
  /\ gens = 0
  /\ ns = <<>>
  /\ snapshots = <<>>
  /\ matched = NoSnapshot

\* process_arguments: build_rules, the seed, then LSystem(...), whose
\* __init__ builds the gradient before it creates the canvas, the system
\* value and the cursor
Construct ==
  /\ pc = "new"
  /\ IF construction_error # ""
     THEN /\ pc' = "config_error"
          /\ err' = construction_error
          /\ UNCHANGED <<seed, rules, system_value, heap, cursor, pen_colors>>
     ELSE /\ pc' = "idle"
          /\ rules' = build_rules(args.rules_map, args.names_map).rules
          /\ seed' = [i \in 1..Len(args.seed) |->
                        <<args.seed[i], args.names_map[<<args.seed[i]>>]>>]
          /\ system_value' = seed'
          /\ pen_colors' = args.pencolors
          /\ heap' = <<Cursor(canvas_width \div 2, canvas_height \div 2, 0, TRUE)>>
          /\ cursor' = 1
          /\ err' = ""
  /\ UNCHANGED <<args, g, depth0, saved_cursors, canvas, n_left, idx, draws,
                 total_draws, gens, ns, snapshots, matched>>

\* main: lsystem.iterate_n_then_run(args.numiters), called once
MainCall ==
  /\ ns = <<>>
  /\ IterateNThenRun

\* canvas.show() reached although the pass raised
Show_after_error ==
  /\ pc \in {"idle", "error"}
  /\ Len(ns) = 1
  /\ pc' = "shown"
  /\ UNCHANGED <<seed, rules, system_value, heap, cursor, saved_cursors, canvas,
                 err, n_left, idx, draws, total_draws, pen_colors, args, g,
                 depth0, gens, ns, snapshots, matched>>

\* main: lsystem.canvas.show(), after iterate_n_then_run has returned
Show ==
  /\ pc = "idle"
  /\ Len(ns) = 1
  /\ pc' = "shown"
  /\ UNCHANGED <<seed, rules, system_value, heap, cursor, saved_cursors, canvas,
                 err, n_left, idx, draws, total_draws, pen_colors, args, g,
                 depth0, gens, ns, snapshots, matched>>

NextMain ==
  \/ Construct
  \/ MainCall
  \/ IterateSystemValue
  \/ RunSystemValue
  \/ PenDown
  \/ PenUp
  \/ MoveForward
  \/ RotateCCW
  \/ RotateCW
  \/ StorePos
  \/ GotoPos
  \/ NoAction
  \/ Return
  \/ Show

SpecMain == InitMain /\ [][NextMain]_vars

\* the program is sequential and always takes its next step
FairSpecMain == SpecMain /\ WF_vars(NextMain)

\* ------------------------------------------------ the gradient closure
MaxStops == 3        \* longest list of color stops
MaxDen == 4          \* largest denominator of the argument t = p / q

Stops == {BLACK, WHITE, <<255, 0, 10>>, <<10, 200, 0>>}

InitGradient ==
  /\ pen_colors \in SeqsUpTo(Stops, MaxStops) \ {<<>>}
  /\ \E q \in 1..MaxDen : \E p \in (-q)..(2 * q) :
       g = [p |-> p, q |-> q, out |-> <<>>]
  /\ args = NoArgs
  /\ pc = "idle"
  /\ seed = <<>>
  /\ rules = NoRules
  /\ system_value = <<>>
  /\ heap = <<Cursor(canvas_width \div 2, canvas_height \div 2, 0, TRUE)>>
  /\ cursor = 1
  /\ saved_cursors = <<>>
  /\ canvas = <<>>
  /\ depth0 = 0
  /\ err = ""
  /\ n_left = 0
  /\ idx = 1
  /\ draws = 0
  /\ total_draws = 0
  /\ gens = 0
  /\ ns = <<>>
  /\ snapshots = <<>>
  /\ matched = NoSnapshot

\* a call self.gradient(t) with t = g.p / g.q
GradientCall ==
  /\ g.out = <<>>
  /\ \E low \in BOOLEAN :
       g' = [g EXCEPT !.out = gradient_fp(pen_colors, g.p, g.q, low)]
  /\ UNCHANGED <<seed, rules, system_value, heap, cursor, saved_cursors, canvas,
                 pc, err, n_left, idx, draws, total_draws, pen_colors, args,
                 depth0, gens, ns, snapshots, matched>>

NextGradient == GradientCall

SpecGradient == InitGradient /\ [][NextGradient]_vars

\* ------------------------------------------------- definitions for claims
\* the command cmd was the last one the command loop executed
JustDid(cmd) == pc = "run" /\ idx > 1 /\ system_value[idx - 1][2] = cmd

\* the step that executes the command at idx without raising
Executes(cmd) == command_at = cmd /\ idx' = idx + 1

RECURSIVE Sum(_)
Sum(s) == IF s = <<>> THEN 0 ELSE s[1] + Sum(Tail(s))

SetMax(S) == CHOOSE m \in S : \A k \in S : k <= m

\* the canvas_draw.line calls of the current pass
pass_lines == SelectSeq(canvas, LAMBDA e : e.run = Len(ns))

Commands(sv) == [i \in 1..Len(sv) |-> sv[i][2]]

\* C1: after a GOTOPOS on a non-empty stack the cursor's x, y and angle are
\* those the cursor had when the matching STOREPOS was executed.
C1_GotoRestoresStoredPosition ==
  JustDid(GOTOPOS) =>
    /\ heap[cursor].x = matched.x
    /\ heap[cursor].y = matched.y
    /\ heap[cursor].angle = matched.angle

\* C2: a GOTOPOS on an empty stack ends the run in an error at that command:
\* it is never skipped, and afterwards no command runs and no line is drawn.
C2_EmptyStackFailsFast ==
  [][ /\ (command_at = GOTOPOS /\ saved_cursors = <<>>) =>
           (pc' = "error" /\ err' = "IndexError" /\ idx' = idx /\ canvas' = canvas)
      /\ pc = "error" =>
           (pc' = "error" /\ idx' = idx /\ canvas' = canvas /\ heap' = heap
              /\ cursor' = cursor /\ system_value' = system_value) ]_vars

C2_Witness ==
  /\ pc = "error"
  /\ err = "IndexError"
  /\ idx < Len(system_value)
  /\ system_value[idx + 1][2] = MOVEFORWARD
  /\ heap[cursor].is_down
  /\ canvas # <<>>

\* the pen state the dry pass tracks when it reaches position i
TrackedPen(sv, pen0, i) ==
  LET switches == {j \in 1..(i - 1) : sv[j][2] \in {PENDOWN, PENUP}}
  IN IF switches = {} THEN pen0 ELSE sv[SetMax(switches)][2] = PENDOWN

EligibleDraws(sv, pen0) ==
  Cardinality({i \in 1..Len(sv) :
                 sv[i][2] \in {MOVEFORWARD, GOTOPOS} /\ TrackedPen(sv, pen0, i)})

DryRunExample == <<PENDOWN, MOVEFORWARD, PENUP, MOVEFORWARD, PENDOWN, MOVEFORWARD>>

\* C3: count_draws returns the number of MOVEFORWARD and GOTOPOS commands at
\* which the tracked pen is down; the tracked pen starts as the cursor's pen
\* state and only PENDOWN and PENUP change it.  The example sequence gives 2
\* when the pen starts up.
C3_CountDrawsCountsTrackedPenDown ==
  [][ (pc = "iterate" /\ pc' = "run") =>
        /\ total_draws' = EligibleDraws(system_value, heap[cursor].is_down)
        /\ (Commands(system_value) = DryRunExample /\ ~heap[cursor].is_down) =>
             total_draws' = 2 ]_vars

C3_Witness ==
  /\ pc = "run"
  /\ idx = 1
  /\ Commands(system_value) = DryRunExample
  /\ ~heap[cursor].is_down
  /\ total_draws = 2

\* C4: within a pass the lines are drawn in command order, the k-th line
\* (from 0) has color gradient(k / total_draws), and total_draws is the
\* count_draws value taken at the start of the pass and never changes
\* during it.
C4_LinesInOrderWithGradientColor ==
  [][ /\ (pc = "iterate" /\ pc' = "run") =>
           total_draws' = count_draws(system_value, heap[cursor].is_down)
      /\ (pc = "run") => total_draws' = total_draws
      /\ (pc' = "run") =>
           LET lines == SelectSeq(canvas', LAMBDA e : e.run = Len(ns'))
           IN \A k \in 1..Len(lines) :
                /\ lines[k].t = <<k - 1, total_draws'>>
                /\ lines[k].fill = gradient(pen_colors, k - 1, total_draws')
                /\ system_value'[lines[k].at][2] \in {MOVEFORWARD, GOTOPOS}
                /\ lines[k].at < idx'
                /\ k > 1 => lines[k - 1].at < lines[k].at ]_vars

C4_Witness ==
  /\ pc = "run"
  /\ Len(ns) = 2
  /\ Len(pass_lines) >= 3
  /\ \E k \in 1..Len(pass_lines) : system_value[pass_lines[k].at][2] = GOTOPOS
  /\ pass_lines[2].fill \notin {BLACK, WHITE}

\* C5: draws / total_draws is evaluated only with total_draws > 0; a pass
\* whose count_draws total is 0 draws no line.
C5_NoDivisionByZero ==
  /\ err # "ZeroDivisionError"
  /\ \A k \in 1..Len(canvas) : canvas[k].t[2] > 0
  /\ (pc = "run" /\ total_draws = 0) => pass_lines = <<>>

C5_Witness ==
  /\ pc = "run"
  /\ idx > Len(system_value)
  /\ total_draws = 0
  /\ \E i \in 1..Len(system_value) : system_value[i][2] = MOVEFORWARD
  /\ \E i \in 1..Len(system_value) : system_value[i][2] = GOTOPOS

\* C6: GOTOPOS leaves the pen state as it was just before it, whatever the
\* pen state at the matching STOREPOS; only PENDOWN and PENUP change it.
C6_GotoKeepsPenState ==
  [][ /\ Executes(GOTOPOS) => heap'[cursor'].is_down = heap[cursor].is_down
      /\ heap'[cursor'].is_down # heap[cursor].is_down =>
           command_at \in {PENDOWN, PENUP} ]_vars

C6_Witness ==
  /\ JustDid(GOTOPOS)
  /\ matched.is_down # heap[cursor].is_down

\* C7: with no rewrite generation applied (iterate_n_then_run(0)) the system
\* value is the seed.
C7_ZeroGenerationsIsSeed ==
  (pc \in {"run", "idle", "error"} /\ Sum(ns) = 0) => system_value = seed

C7_Witness ==
  /\ pc = "run"
  /\ ns = <<0>>
  /\ system_value = seed
  /\ \E i \in 1..Len(seed) : seed[i] \in DOMAIN rules

RECURSIVE expand_n(_, _, _)
expand_n(sv, rs, n) ==
  IF n = 0 THEN sv ELSE expand_n(new_value(sv, rs), rs, n - 1)

\* C8: the system value after generations split over several calls (a, then
\* b) is the one a + b generations give from the seed.
C8_GenerationsCompose ==
  /\ pc \in {"run", "idle", "error"} =>
       system_value = expand_n(seed, rules, Sum(ns))
  /\ pc = "iterate" =>
       system_value = expand_n(seed, rules, Sum(ns) - n_left)

C8_Witness ==
  /\ pc = "run"
  /\ Len(ns) = 2
  /\ ns[1] > 0
  /\ ns[2] > 0
  /\ expand_n(seed, rules, 2) # expand_n(seed, rules, 1)
  /\ expand_n(seed, rules, 1) # seed

\* what one generation puts in the place of symbol s
image(rs, s) == IF s \in DOMAIN rs THEN rs[s] ELSE <<s>>

\* the number of output symbols produced by the symbols before position i
RECURSIVE offset(_, _, _)
offset(rs, sv, i) ==
  IF i <= 1 THEN 0 ELSE offset(rs, sv, i - 1) + Len(image(rs, sv[i - 1]))

IsGenerationOf(rs, sv, out) ==
  /\ Len(out) = offset(rs, sv, Len(sv) + 1)
  /\ \A i \in 1..Len(sv) :
       SubSeq(out, offset(rs, sv, i) + 1, offset(rs, sv, i + 1)) = image(rs, sv[i])
  /\ (\A i \in 1..Len(sv) : sv[i] \notin DOMAIN rs) => out = sv

\* C9: one generation is the concatenation, in order, of rules[s] for each
\* symbol that is a key (same character and same command) and of [s] for
\* each symbol that is not; a sequence without keys is unchanged.
C9_GenerationIsConcatenation ==
  [][ (pc = "iterate" /\ gens' = gens + 1) =>
        IsGenerationOf(rules, system_value, system_value') ]_vars

C9_Witness ==
  /\ gens = 1
  /\ sF \in DOMAIN rules
  /\ \E i \in 1..Len(seed) : seed[i] = sF
  /\ \E i \in 1..Len(seed) : seed[i] = sFn
  /\ \E i \in 1..Len(system_value) : system_value[i] = sFn
  /\ Len(system_value) > Len(seed)

\* C10: a generation changes the system value only: the seed and the rules
\* stay as constructed, the cursor, the stack and the canvas are untouched.
C10_GenerationFrame ==
  [][ /\ seed' = seed
      /\ rules' = rules
      /\ (pc = "iterate" /\ gens' = gens + 1) =>
           /\ heap' = heap
           /\ cursor' = cursor
           /\ saved_cursors' = saved_cursors
           /\ canvas' = canvas ]_vars

C10_Witness ==
  /\ gens >= 1
  /\ Len(ns) = 2
  /\ ns[2] >= 1
  /\ system_value # seed
  /\ saved_cursors # <<>>
  /\ canvas # <<>>

\* the cursor LSystem.__init__ creates
InitialCursor == Cursor(canvas_width \div 2, canvas_height \div 2, 0, TRUE)

\* C15 as claimed: every pass begins with an empty position stack and the
\* cursor at its initial position, angle and pen state.
C15_EveryPassStartsFresh ==
  (pc = "run" /\ idx = 1) =>
    (saved_cursors = <<>> /\ heap[cursor] = InitialCursor)

\* C15 amended: the first pass begins with an empty stack and the initial
\* cursor; between passes nothing touches the cursor or the stack, so a later
\* pass begins with what the earlier one left.
C15_PassStartsWhereLastEnded ==
  [][ /\ pc # "run" =>
           (heap' = heap /\ cursor' = cursor /\ saved_cursors' = saved_cursors)
      /\ (pc' = "run" /\ idx' = 1 /\ Len(ns') = 1) =>
           (saved_cursors' = <<>> /\ heap'[cursor'] = InitialCursor) ]_vars

C15_Witness ==
  /\ pc = "run"
  /\ idx = 1
  /\ Len(ns) = 2
  /\ saved_cursors # <<>>
  /\ heap[cursor].x # InitialCursor.x
  /\ heap[cursor].angle # 0
  /\ ~heap[cursor].is_down

\* C17: every line is drawn with draws < total_draws, and a pass that
\* completes has drawn exactly total_draws lines.
C17_DryCountAgreesWithPass ==
  /\ \A k \in 1..Len(canvas) : canvas[k].t[1] < canvas[k].t[2]
  /\ ((pc = "run" /\ idx > Len(system_value)) \/ (pc = "idle" /\ ns # <<>>)) =>
       (draws = total_draws /\ Len(pass_lines) = total_draws)

C17_Witness ==
  /\ pc = "idle"
  /\ Len(ns) = 2
  /\ ns[2] > 0
  /\ total_draws >= 2
  /\ total_draws <
       Cardinality({i \in 1..Len(system_value) :
                      system_value[i][2] \in {MOVEFORWARD, GOTOPOS}})
  /\ \E k \in 1..Len(pass_lines) : system_value[pass_lines[k].at][2] = GOTOPOS

\* C18: PENDOWN, PENUP, MOVEFORWARD, ROTATECCW, ROTATECW and NOACTION leave the
\* stack's length and the x, y and angle of every entry unchanged.
C18_SnapshotsImmutable ==
  [][ (command_at \in {PENDOWN, PENUP, MOVEFORWARD, ROTATECCW, ROTATECW, NOACTION}) =>
        (/\ Len(saved_cursors') = Len(saved_cursors)
         /\ \A i \in 1..Len(saved_cursors) :
              LET before == heap[saved_cursors[i]]
                  after == heap'[saved_cursors'[i]]
              IN /\ after.x = before.x
                 /\ after.y = before.y
                 /\ after.angle = before.angle) ]_vars

CountCmd(sv, n, cmd) == Cardinality({i \in 1..n : sv[i][2] = cmd})

\* C19: during a pass the stack's length is its length at the start of the
\* pass plus the STOREPOS executed minus the GOTOPOS executed; only these two
\* change it, STOREPOS by appending and GOTOPOS by removing the last entry.
C19_StackLengthIsPushesMinusPops ==
  [][ /\ pc' = "run" =>
           Len(saved_cursors') =
             depth0' + CountCmd(system_value', idx' - 1, STOREPOS)
                     - CountCmd(system_value', idx' - 1, GOTOPOS)
      /\ Executes(STOREPOS) => saved_cursors' = Append(saved_cursors, cursor)
      /\ Executes(GOTOPOS) =>
           saved_cursors' = SubSeq(saved_cursors, 1, Len(saved_cursors) - 1)
      /\ Len(saved_cursors') # Len(saved_cursors) =>
           command_at \in {STOREPOS, GOTOPOS} ]_vars

C19_Witness ==
  /\ JustDid(GOTOPOS)
  /\ Len(ns) = 2
  /\ depth0 >= 1
  /\ CountCmd(system_value, idx - 1, STOREPOS) >= 2
  /\ Len(saved_cursors) = depth0 + 1

KochCommands == <<MOVEFORWARD, ROTATECCW, MOVEFORWARD, ROTATECW, MOVEFORWARD>>

\* the end-to-end case holds for the driver inputs with naming map names
EndToEnd(names) ==
  (/\ args.rules_map = KochMap
   /\ args.names_map = names
   /\ args.seed = <<"X">>
   /\ build_color_gradient(args.pencolors) = "gradient"
   /\ pc # "new") =>
     /\ pc # "config_error"
     /\ (gens = 1 /\ pc \in {"run", "idle", "shown"}) =>
          (Commands(system_value) = KochCommands /\ total_draws = 3)
     /\ (gens = 1 /\ pc \in {"idle", "shown"}) => Len(canvas) = 3

\* C11 as claimed: rule map {X: "F+F-F"}, naming map {F, +, -}, seed "X" and
\* one generation give [MOVEFORWARD, ROTATECCW, MOVEFORWARD, ROTATECW,
\* MOVEFORWARD], whose pass draws exactly 3 lines.
C11_EndToEndAsClaimed == EndToEnd(TurtleNames)

\* C11 amended: the same with the naming map also naming X (as NOACTION).
C11_EndToEndWithXNamed == EndToEnd(TurtleNamesX)

C11_Witness ==
  /\ args.rules_map = KochMap
  /\ args.names_map = TurtleNamesX
  /\ args.seed = <<"X">>
  /\ pc = "shown"
  /\ gens = 1
  /\ Commands(system_value) = KochCommands
  /\ Len(canvas) = 3

BadColors(colors) ==
  \/ colors = <<>>
  \/ \E i \in 1..Len(colors) : \E c \in 1..3 : colors[i][c] < 0 \/ colors[i][c] > 255

BadKeys(map) == \E k \in DOMAIN map : Len(k) # 1

\* C14: a rule-map or naming-map key of length other than 1, an empty list
\* of color stops or an RGB component outside [0,255] ends construction in
\* an error with no generation applied and no line drawn.
C14_ConfigurationErrorsComeFirst ==
  /\ (BadKeys(args.rules_map) \/ BadKeys(args.names_map) \/ BadColors(args.pencolors)) =>
       /\ pc \in {"new", "config_error"}
       /\ pc = "config_error" => err \in {"ValueError", "KeyError"}
  /\ pc \in {"new", "config_error"} =>
       (gens = 0 /\ ns = <<>> /\ canvas = <<>> /\ system_value = <<>>)

C14_Witness ==
  /\ pc = "config_error"
  /\ err = "ValueError"
  /\ ~BadKeys(args.rules_map)
  /\ ~BadKeys(args.names_map)
  /\ args.pencolors # <<>>
  /\ BadColors(args.pencolors)

\* C16: once the pass has raised, canvas.show() is never reached; it is
\* reached only from a pass that ran to the end of the system value.  Lines
\* drawn before the failing command stay on the canvas.
C16_FailedPassNeverShown ==
  [][ /\ pc = "error" => (pc' = "error" /\ canvas' = canvas)
      /\ pc' = "shown" => (err' = "" /\ idx' > Len(system_value')) ]_vars

C16_Witness ==
  /\ pc = "error"
  /\ err = "IndexError"
  /\ canvas # <<>>

\* C20: iterate_n_then_run(n) applies exactly n generations, all before the
\* first command is interpreted, then makes one pass that takes the commands
\* one by one in order without changing the system value, and it ends, by
\* returning or by raising.
C20_GenerationsThenOnePass ==
  /\ [][ /\ (pc = "iterate" /\ pc' = "run") =>
              (gens' = ns[1] /\ idx' = 1
                 /\ system_value' = expand_n(seed, rules, ns[1]))
         /\ pc' = "run" => pc \in {"iterate", "run"}
         /\ pc = "run" => (system_value' = system_value /\ gens' = gens)
         /\ (pc = "run" /\ pc' = "run") => idx' = idx + 1
         /\ (pc = "run" /\ pc' = "idle") => idx = Len(system_value) + 1
         /\ pc \in {"idle", "shown", "error"} => pc' # "run" ]_vars
  /\ (pc = "iterate") ~> (pc \in {"idle", "error"})

C20_Witness ==
  /\ pc = "idle"
  /\ ns = <<2>>
  /\ gens = 2
  /\ Len(system_value) > Len(seed) + 4
  /\ idx = Len(system_value) + 1

\* C12: with one stop the gradient returns it for every t; with N >= 2 stops
\* it returns the first stop for t <= 0, the last for t >= 1 and stop k for
\* t = k / (N - 1), and the result is always an RGB triple.
C12_GradientClampsAndHitsStops ==
  g.out # <<>> =>
    LET N == Len(pen_colors)
    IN /\ g.out \in (0..255) \X (0..255) \X (0..255)
       /\ N = 1 => g.out = pen_colors[1]
       /\ N >= 2 =>
            /\ g.p <= 0 => g.out = pen_colors[1]
            /\ g.p >= g.q => g.out = pen_colors[N]
            /\ \A k \in 0..(N - 1) :
                 g.p * (N - 1) = k * g.q => g.out = pen_colors[k + 1]

C12_Witness ==
  /\ g.out # <<>>
  /\ Len(pen_colors) = 3
  /\ g.p > g.q
  /\ g.out = pen_colors[3]
  /\ pen_colors[3] # pen_colors[1]
  /\ pen_colors[3] # pen_colors[2]

Min2(a, b) == IF a <= b THEN a ELSE b
Max2(a, b) == IF a <= b THEN b ELSE a

\* C13: for N >= 2 and t strictly inside segment i (i < t * (N - 1) < i + 1)
\* each channel r of the result is the truncation, never the rounding, of
\* the float c_i + s * (c_j - c_i) with s = t * (N - 1) - i: r <= value and
\* value <= r + 1, with value = r + 1 only where the float fell below a whole
\* value; r lies between c_i and c_j, and BLACK, WHITE give (127, 127, 127)
\* at t = 1/2.
C13_InterpolationTruncates ==
  (g.out # <<>> /\ Len(pen_colors) >= 2) =>
    LET n == Len(pen_colors) - 1
    IN /\ \A i \in 0..(n - 1) :
            (i * g.q < g.p * n /\ g.p * n < (i + 1) * g.q) =>
              \A c \in 1..3 :
                LET a == pen_colors[i + 1][c]
                    b == pen_colors[i + 2][c]
                    r == g.out[c]
                    exact_times_q == a * g.q + (g.p * n - i * g.q) * (b - a)
                IN /\ r * g.q <= exact_times_q
                   /\ exact_times_q <= (r + 1) * g.q
                   /\ Min2(a, b) <= r
                   /\ r <= Max2(a, b)
       /\ (pen_colors = <<BLACK, WHITE>> /\ 2 * g.p = g.q) =>
            g.out = <<127, 127, 127>>

C13_Witness ==
  /\ g.out = <<127, 127, 127>>
  /\ pen_colors = <<BLACK, WHITE>>
  /\ g.p = 1
  /\ g.q = 2

TypeOK ==
  /\ pc \in {"idle", "iterate", "run", "error"}
  /\ cursor \in 1..Len(heap)
  /\ \A i \in 1..Len(saved_cursors) : saved_cursors[i] \in 1..Len(heap)
  /\ Len(snapshots) = Len(saved_cursors)
====
